---- MODULE Spec2Model ----
(***************************************************************************)
(* Session engine of the Wattpilot client (src/wattpilot.go): the facade   *)
(* operations, the reader task (receiveHandler and the event handlers),    *)
(* the supervisor (processLoop) and the refresh task it spawns.            *)
(*                                                                         *)
(* Granularity.  Every access to the session fields that the code makes    *)
(* without the mutex is a separate step, so that the tasks interleave as   *)
(* goroutines do; the sections under _readMutex are atomic steps.  The     *)
(* unbuffered channels connected / initialized are rendezvous steps of a   *)
(* sending reader and a receiving Connect call.  A Go panic (nil pointer   *)
(* dereference, failed type assertion) ends the process: crashed names    *)
(* the panic and no further step is taken.  Time is abstracted: the timer  *)
(* tick and the sleeps are steps that may be taken at any moment.          *)
(*                                                                         *)
(* The device and the network are the environment: on an open connection   *)
(* any frame may arrive in any order, a connection may be lost, a dial may *)
(* fail, the interrupt signal may arrive.                                  *)
(***************************************************************************)
EXTENDS Integers, Sequences, FiniteSets, TLC

\* ---------------------------------------------------------------- bounds
MaxConn == 2          \* successful dials in one behaviour
MaxRequestId == 3     \* request ids recorded in one behaviour

Keys == {"a"}         \* keys the device reports in its status batches
Names == {"a", "b"}   \* property names the client asks for
Values == {1}         \* property values
Conns == 1..MaxConn   \* connection (and reader task) identities
NoConn == 0           \* w._currentConnection == nil

Callers == {"client", "refresh"}    \* tasks that run Connect and RequestStatusUpdate
Tasks == {"client", "refresh", "super"}

VARIABLES
    _isConnected,        \* w._isConnected
    _isInitialized,      \* w._isInitialized
    _status,             \* w._status: function from the observed keys to values
    _currentConnection,  \* w._currentConnection: NoConn or a connection
    _requestId,          \* w._requestId
    _secured,            \* w._secured
    connState,           \* transport of each connection
    nconn,               \* connections dialled so far
    rpc,                 \* position of each reader task
    rconn,               \* the connection a reader is blocked reading
    merging,             \* the batch updateStatus is looping over, and the keys still to assign
    pc,                  \* position of the client, the refresh task, the supervisor
    arg,                 \* the name of the client's pending SetProperty
    tid,                 \* the id a task holds between getRequestId and the write
    ret,                 \* outcome of the client's last facade call
    issued,              \* history: request ids in the order getRequestId returned them
    lastSent,            \* history: the last command written to a transport
    fullSeen,            \* history: a non-partial fullStatus of the current connection was merged
    reconn,              \* history: outcome of the refresh task's last reconnect
    crashed              \* "no", or the panic that ended the process

session == <<_isConnected, _isInitialized, _status, _currentConnection, _requestId, _secured>>
net == <<connState, nconn>>
readers == <<rpc, rconn, merging>>
history == <<issued, lastSent, fullSeen, reconn>>

vars == <<session, net, readers, pc, arg, tid, ret, history, crashed>>

\* ---------------------------------------------------------------- frames
EmptyStatus == <<>>
Batches == UNION {[S -> Values] : S \in SUBSET Keys}

Mk(kind, partial, status, secured) ==
    [kind |-> kind, partial |-> partial, status |-> status, secured |-> secured]

\* Frames the router drops: not a JSON object, no "type", a type with no handler.
DroppedKinds == {"notObject", "noType", "unknownType"}
\* A JSON object whose "type" is not a string.
BadTypeKind == "nonStringType"
\* Registered handlers whose message carries nothing the model reads.
PlainKinds == {"authRequired", "authSuccess", "authError", "clearInverters"}

Frames ==
    {Mk(k, FALSE, EmptyStatus, "absent") : k \in DroppedKinds \cup {BadTypeKind} \cup PlainKinds}
    \cup {Mk("hello", FALSE, EmptyStatus, s) : s \in {"absent", "true", "false"}}
    \cup {Mk("fullStatus", p, b, "absent") : p \in BOOLEAN, b \in Batches}
    \cup {Mk("deltaStatus", FALSE, b, "absent") : b \in Batches}

\* Status frames over two keys and two values, for what a merge does to the
\* values already stored.
WideKeys == {"a", "b"}
WideValues == {1, 2}
WideBatches == UNION {[S -> WideValues] : S \in SUBSET WideKeys}

StatusFrames ==
    {Mk("fullStatus", p, b, "absent") : p \in BOOLEAN, b \in WideBatches}
    \cup {Mk("deltaStatus", FALSE, b, "absent") : b \in WideBatches}

\* Response messages: "success" is true, false or not there.
ResponseFrames == {[kind |-> "response", success |-> x] : x \in {"true", "false", "absent"}}

\* ---------------------------------------------------------------- helpers
\* hasKey with the test lost: no name counts as observed.
hasKeyNever(m, k) == FALSE
hasKey(m, k) == k \in DOMAIN m

\* updateStatus that keeps the stored value of a key it already holds.
updateStatusKeep(st, batch) ==
    [k \in DOMAIN st \cup DOMAIN batch |-> IF k \in DOMAIN st THEN st[k] ELSE batch[k]]

\* updateStatus: every key of the batch overwrites the stored value.
updateStatus(st, batch) ==
    [k \in DOMAIN st \cup DOMAIN batch |-> IF k \in DOMAIN batch THEN batch[k] ELSE st[k]]

\* getRequestId that reads the counter without adding to it.
getRequestIdStale(r) == r
\* The int64 counter at a width the model can enumerate: it wraps after more
\* than MaxRequestId additions.  The ids steer nothing in the program, and the
\* specifications that speak of the ids stop at MaxRequestId (IdsLeft).
IdModulus == MaxRequestId + 1
\* getRequestId: atomic.AddInt64(&w._requestId, 1); the new value is the id.
getRequestId(r) == (r + 1) % IdModulus

\* Outcomes of a write to a transport: an open one takes it, a closed one
\* refuses it, a broken one may still buffer it.
WriteOutcomes(c) ==
    CASE connState[c] = "open" -> {"ok"}
      [] connState[c] = "lost" -> {"ok", "err"}
      [] OTHER -> {"err"}

\* No updateStatus holds the mutex.
NoMerge == [frame |-> Mk("none", FALSE, EmptyStatus, "absent"), left |-> {}]

NoCommand == [type |-> "none", id |-> 0, key |-> "", conn |-> NoConn]
\* onSendResponse, the message it writes: the message itself, or when secured
\* a securedMsg whose requestId is the inner id followed by "sm" and whose data
\* is the inner message.  conn names the transport the write goes to.
onSendResponse(secured, message) ==
    IF secured
       THEN [type |-> "securedMsg", requestId |-> <<message.id, "sm">>,
             data |-> [type |-> message.type, id |-> message.id, key |-> message.key],
             conn |-> message.conn]
       ELSE message

\* The command inside a message that was written.
Inner(m) ==
    IF m.type = "securedMsg"
       THEN [type |-> m.data.type, id |-> m.data.id, key |-> m.data.key, conn |-> m.conn]
       ELSE m

\* sendUpdate, RequestStatusUpdate: w.onSendResponse(w._secured, message)
Command(type, id, key) ==
    onSendResponse(_secured, [type |-> type, id |-> id, key |-> key, conn |-> _currentConnection])

\* Outcome of a facade call: the error ("" for nil) and the value returned.
NoRet == [op |-> "none", name |-> "", err |-> "", val |-> 0]
Ret(op, name, err, val) == [op |-> op, name |-> name, err |-> err, val |-> val]

\* GetProperty(name) in the current state (the alias table and the
\* post-processing table are external; the names of the model have no alias).
GetProperty(name) ==
    IF ~_isInitialized THEN Ret("GetProperty", name, "NotReady", 0)
    ELSE IF ~hasKey(_status, name) THEN Ret("GetProperty", name, "NotFound", 0)
    ELSE Ret("GetProperty", name, "", _status[name])

\* ---------------------------------------------------------------- Init
\* New(): the fields as constructed, processLoop started, no connection.
Init ==
    /\ _isConnected = FALSE
    /\ _isInitialized = FALSE
    /\ _status = EmptyStatus
    /\ _currentConnection = NoConn
    /\ _requestId = 0
    /\ _secured = FALSE
    /\ connState = [c \in Conns |-> "unused"]
    /\ nconn = 0
    /\ rpc = [c \in Conns |-> "none"]
    /\ rconn = [c \in Conns |-> NoConn]
    /\ merging = NoMerge
    /\ pc = [t \in Tasks |-> IF t = "super" THEN "loop" ELSE "idle"]
    /\ arg = ""
    /\ tid = [t \in Callers |-> 0]
    /\ ret = NoRet
    /\ issued = <<>>
    /\ lastSent = NoCommand
    /\ fullSeen = FALSE
    /\ reconn = "none"
    /\ crashed = "no"

\* ---------------------------------------------------------------- returns
\* The history of issued ids is kept for the first MaxRequestId of them.
IdsLeft == Len(issued) < MaxRequestId

Record(id) == IF IdsLeft THEN Append(issued, id) ELSE issued

\* Connect() returning to its caller: the client records the outcome, the
\* refresh goroutine (reconnect) logs it and ends.
ConnectReturns(t, err) ==
    /\ pc' = [pc EXCEPT ![t] = "idle"]
    /\ IF t = "client"
          THEN /\ ret' = Ret("Connect", "", err, 0)
               /\ UNCHANGED reconn
          ELSE /\ reconn' = (IF err = "" THEN "ok" ELSE "failed")
               /\ UNCHANGED ret

\* Where a task continues when disconnectImpl returns.
AfterTeardown(t) ==
    CASE t = "client" -> "d_wait"       \* Disconnect: <-w._interrupt
      [] t = "refresh" -> "rc_check"    \* w.reconnect()
      [] OTHER -> "stopped"             \* processLoop returns

\* The mutex is held across a step only by SetProperty (between getRequestId
\* and the write of sendUpdate); every other section under it is one step.
mutexHeld == pc["client"] = "sp_write"

\* ---------------------------------------------------------------- reader task
\* receiveHandler: wsutil.ReadServerText(*w._currentConnection)
ReaderDeref(r) ==
    /\ rpc[r] = "read"
    /\ _currentConnection # NoConn
    /\ rconn' = [rconn EXCEPT ![r] = _currentConnection]
    /\ rpc' = [rpc EXCEPT ![r] = "blocked"]
    /\ UNCHANGED <<session, net, merging, pc, arg, tid, ret, history, crashed>>

ReaderNilDeref(r) ==
    /\ rpc[r] = "read"
    /\ _currentConnection = NoConn
    /\ crashed' = "nilRead"
    /\ UNCHANGED <<session, net, readers, pc, arg, tid, ret, history>>

\* The read returns an error: the handler returns (w._readCancel() is commented out).
ReaderReadFail(r) ==
    /\ rpc[r] = "blocked"
    /\ connState[rconn[r]] \in {"lost", "closed"}
    /\ rpc' = [rpc EXCEPT ![r] = "stopped"]
    /\ UNCHANGED <<session, net, rconn, merging, pc, arg, tid, ret, history, crashed>>

Receives(r, f) ==
    /\ rpc[r] = "blocked"
    /\ connState[rconn[r]] = "open"
    /\ f \in Frames \cup StatusFrames \cup ResponseFrames

\* json.Unmarshal fails, no "type", or no handler for the type: continue.
RouterDrop(r, f) ==
    /\ Receives(r, f)
    /\ f.kind \in DroppedKinds
    /\ rpc' = [rpc EXCEPT ![r] = "read"]
    /\ UNCHANGED <<session, net, rconn, merging, pc, arg, tid, ret, history, crashed>>

\* msgType.(string) on a type that is no string panics.
RouterPanic(r, f) ==
    /\ Receives(r, f)
    /\ f.kind = BadTypeKind
    /\ crashed' = "typeAssertion"
    /\ UNCHANGED <<session, net, readers, pc, arg, tid, ret, history>>

\* onEventHello: the identity fields; w._secured only when the field is there.
onEventHello(r, f) ==
    /\ Receives(r, f)
    /\ f.kind = "hello"
    /\ _secured' = (IF f.secured = "absent" THEN _secured ELSE f.secured = "true")
    /\ rpc' = [rpc EXCEPT ![r] = "read"]
    /\ UNCHANGED <<_isConnected, _isInitialized, _status, _currentConnection, _requestId,
                   net, rconn, merging, pc, arg, tid, ret, history, crashed>>

\* onEventAuthRequired up to the call of onSendResponse.
onEventAuthRequired(r, f) ==
    /\ Receives(r, f)
    /\ f.kind = "authRequired"
    /\ rpc' = [rpc EXCEPT ![r] = "auth_send"]
    /\ UNCHANGED <<session, net, rconn, merging, pc, arg, tid, ret, history, crashed>>

\* err := w.onSendResponse(false, response); w._isInitialized = (err != nil)
AuthSend(r) ==
    /\ rpc[r] = "auth_send"
    /\ IF _currentConnection = NoConn
          THEN /\ crashed' = "nilWrite"
               /\ UNCHANGED <<_isInitialized, rpc>>
          ELSE /\ \E o \in WriteOutcomes(_currentConnection) :
                      _isInitialized' = (o = "err")
               /\ rpc' = [rpc EXCEPT ![r] = "read"]
               /\ UNCHANGED crashed
    /\ UNCHANGED <<_isConnected, _status, _currentConnection, _requestId, _secured,
                   net, rconn, merging, pc, arg, tid, ret, history>>

\* onEventAuthSuccess / onEventAuthError up to the channel send.
onEventAuthResult(r, f) ==
    /\ Receives(r, f)
    /\ f.kind \in {"authSuccess", "authError"}
    /\ rpc' = [rpc EXCEPT ![r] = IF f.kind = "authSuccess" THEN "sig_true" ELSE "sig_false"]
    /\ UNCHANGED <<session, net, rconn, merging, pc, arg, tid, ret, history, crashed>>

\* w.connected <- b  meets  w._isConnected = <-w.connected  of a Connect call.
SignalConnected(r, t) ==
    /\ rpc[r] \in {"sig_true", "sig_false"}
    /\ pc[t] = "c_auth"
    /\ _isConnected' = (rpc[r] = "sig_true")
    /\ rpc' = [rpc EXCEPT ![r] = "read"]
    /\ IF rpc[r] = "sig_true"
          THEN /\ pc' = [pc EXCEPT ![t] = "c_init"]
               /\ UNCHANGED <<ret, reconn>>
          ELSE ConnectReturns(t, "AuthErr")
    /\ UNCHANGED <<_isInitialized, _status, _currentConnection, _requestId, _secured,
                   net, rconn, merging, arg, tid, issued, lastSent, fullSeen, crashed>>

\* onEventFullStatus up to the channel send.
onEventFullStatus(r, f) ==
    /\ Receives(r, f)
    /\ f.kind = "fullStatus"
    /\ ~mutexHeld
    /\ _status' = updateStatus(_status, f.status)
    /\ fullSeen' = (fullSeen \/ (~f.partial /\ rconn[r] = _currentConnection))
    /\ rpc' = [rpc EXCEPT ![r] = IF f.partial \/ _isInitialized THEN "read" ELSE "sig_init"]
    /\ UNCHANGED <<_isConnected, _isInitialized, _currentConnection, _requestId, _secured,
                   net, rconn, merging, pc, arg, tid, ret, issued, lastSent, reconn, crashed>>

\* w.initialized <- true  meets  <-w.initialized  of a Connect call, which returns nil.
SignalInitialized(r, t) ==
    /\ rpc[r] = "sig_init"
    /\ pc[t] = "c_init"
    /\ rpc' = [rpc EXCEPT ![r] = "set_init"]
    /\ ConnectReturns(t, "")
    /\ UNCHANGED <<session, net, rconn, merging, arg, tid, issued, lastSent, fullSeen, crashed>>

\* w._isInitialized = true, after the send.
SetInitialized(r) ==
    /\ rpc[r] = "set_init"
    /\ _isInitialized' = TRUE
    /\ rpc' = [rpc EXCEPT ![r] = "read"]
    /\ UNCHANGED <<_isConnected, _status, _currentConnection, _requestId, _secured,
                   net, rconn, merging, pc, arg, tid, ret, history, crashed>>

onEventDeltaStatus(r, f) ==
    /\ Receives(r, f)
    /\ f.kind = "deltaStatus"
    /\ ~mutexHeld
    /\ _status' = updateStatus(_status, f.status)
    /\ rpc' = [rpc EXCEPT ![r] = "read"]
    /\ UNCHANGED <<_isConnected, _isInitialized, _currentConnection, _requestId, _secured,
                   net, rconn, merging, pc, arg, tid, ret, history, crashed>>

\* onEventClearInverters / onEventUpdateInverter only log.
onEventClearInverters(r, f) ==
    /\ Receives(r, f)
    /\ f.kind = "clearInverters"
    /\ rpc' = [rpc EXCEPT ![r] = "read"]
    /\ UNCHANGED <<session, net, rconn, merging, pc, arg, tid, ret, history, crashed>>

\* updateStatus step by step, for what a task sees that runs beside it:
\* w._readMutex.Lock() with the batch of the message in hand.
unlocked == merging = NoMerge

MergeBegin(r, f) ==
    /\ Receives(r, f)
    /\ f.kind \in {"fullStatus", "deltaStatus"}
    /\ unlocked /\ ~mutexHeld
    /\ merging' = [frame |-> f, left |-> DOMAIN f.status]
    /\ rpc' = [rpc EXCEPT ![r] = "merge"]
    /\ UNCHANGED <<session, net, rconn, pc, arg, tid, ret, history, crashed>>

\* One round of  for k, v := range statusUpdates { w._status[k] = v }  on the
\* map w._status names at that moment.
MergeKey(r, k) ==
    /\ rpc[r] = "merge"
    /\ k \in merging.left
    /\ _status' = [x \in DOMAIN _status \cup {k} |->
                      IF x = k THEN merging.frame.status[k] ELSE _status[x]]
    /\ merging' = [merging EXCEPT !.left = @ \ {k}]
    /\ UNCHANGED <<_isConnected, _isInitialized, _currentConnection, _requestId, _secured,
                   net, rpc, rconn, pc, arg, tid, ret, history, crashed>>

\* The loop is over: the deferred Unlock, and the rest of the handler up to its
\* return or its channel send.
MergeEnd(r) ==
    /\ rpc[r] = "merge"
    /\ merging.left = {}
    /\ merging' = NoMerge
    /\ IF merging.frame.kind = "deltaStatus"
          THEN /\ rpc' = [rpc EXCEPT ![r] = "read"]
               /\ UNCHANGED fullSeen
          ELSE /\ fullSeen' = (fullSeen \/ (~merging.frame.partial /\ rconn[r] = _currentConnection))
               /\ rpc' = [rpc EXCEPT ![r] =
                             IF merging.frame.partial \/ _isInitialized THEN "read" ELSE "sig_init"]
    /\ UNCHANGED <<session, net, rconn, pc, arg, tid, ret, issued, lastSent, reconn, crashed>>

\* onEventResponse: returns when success is true, logs and returns when it is
\* false; success.(bool) panics when the field is not there.  The send on
\* w._sendResponse is behind the two returns.
onEventResponse(r, f) ==
    /\ Receives(r, f)
    /\ f.kind = "response"
    /\ IF f.success = "absent"
          THEN crashed' = "typeAssertion" /\ UNCHANGED rpc
          ELSE rpc' = [rpc EXCEPT ![r] = "read"] /\ UNCHANGED crashed
    /\ UNCHANGED <<session, net, rconn, merging, pc, arg, tid, ret, history>>

\* ---------------------------------------------------------------- Connect
\* Connect: if w._isConnected || w._isInitialized { return nil }.  The client
\* calls it from idle, the refresh task when the sleep of reconnect ends.
ConnectCheck(t) ==
    /\ t \in Callers
    /\ pc[t] = (IF t = "client" THEN "idle" ELSE "rc_sleep")
    /\ IF _isConnected \/ _isInitialized
          THEN ConnectReturns(t, "")
          ELSE /\ pc' = [pc EXCEPT ![t] = "c_dial"]
               /\ UNCHANGED <<ret, reconn>>
    /\ UNCHANGED <<session, net, readers, arg, tid, issued, lastSent, fullSeen, crashed>>

\* ws.DefaultDialer.Dial succeeds: w._currentConnection = &conn; go w.receiveHandler(...)
Dial(t) ==
    /\ pc[t] = "c_dial"
    /\ nconn < MaxConn
    /\ nconn' = nconn + 1
    /\ connState' = [connState EXCEPT ![nconn + 1] = "open"]
    /\ _currentConnection' = nconn + 1
    /\ rpc' = [rpc EXCEPT ![nconn + 1] = "read"]
    /\ pc' = [pc EXCEPT ![t] = "c_auth"]
    /\ fullSeen' = FALSE
    /\ UNCHANGED <<_isConnected, _isInitialized, _status, _requestId, _secured,
                   rconn, merging, arg, tid, ret, issued, lastSent, reconn, crashed>>

\* The dial fails (or its 30 s timeout expires): Connect returns the error.
DialFail(t) ==
    /\ pc[t] = "c_dial"
    /\ ConnectReturns(t, "DialErr")
    /\ UNCHANGED <<session, net, readers, arg, tid, issued, lastSent, fullSeen, crashed>>

\* ---------------------------------------------------------------- facade calls of the client
ClientGetProperty(name) ==
    /\ pc["client"] = "idle"
    /\ _isInitialized => unlocked
    /\ ret' = GetProperty(name)
    /\ UNCHANGED <<session, net, readers, pc, arg, tid, history, crashed>>

\* Properties: the keys of the store, collected under the mutex.
ClientProperties ==
    /\ pc["client"] = "idle"
    /\ unlocked
    /\ ret' = Ret("Properties", "", "", DOMAIN _status)
    /\ UNCHANGED <<session, net, readers, pc, arg, tid, history, crashed>>

\* SetProperty up to w._readMutex.Lock()
ClientSetProperty(name) ==
    /\ pc["client"] = "idle"
    /\ IF ~_isInitialized
          THEN /\ ret' = Ret("SetProperty", name, "NotReady", 0)
               /\ UNCHANGED <<pc, arg>>
          ELSE /\ pc' = [pc EXCEPT !["client"] = "sp_lock"]
               /\ arg' = name
               /\ UNCHANGED ret
    /\ UNCHANGED <<session, net, readers, tid, history, crashed>>

\* SetProperty under the mutex: hasKey, then sendUpdate up to getRequestId.
SetPropertyLocked ==
    /\ pc["client"] = "sp_lock"
    /\ unlocked
    /\ IF ~hasKey(_status, arg)
          THEN /\ ret' = Ret("SetProperty", arg, "NotFound", 0)
               /\ pc' = [pc EXCEPT !["client"] = "idle"]
               /\ arg' = ""
               /\ UNCHANGED <<_requestId, tid, issued>>
          ELSE /\ IdsLeft
               /\ _requestId' = getRequestId(_requestId)
               /\ tid' = [tid EXCEPT !["client"] = getRequestId(_requestId)]
               /\ issued' = Record(getRequestId(_requestId))
               /\ pc' = [pc EXCEPT !["client"] = "sp_write"]
               /\ UNCHANGED <<ret, arg>>
    /\ UNCHANGED <<_isConnected, _isInitialized, _status, _currentConnection, _secured,
                   net, readers, lastSent, fullSeen, reconn, crashed>>

\* sendUpdate: onSendResponse(w._secured, message), still under the mutex.
SetPropertyWrite ==
    /\ pc["client"] = "sp_write"
    /\ IF _currentConnection = NoConn
          THEN /\ crashed' = "nilWrite"
               /\ UNCHANGED <<pc, arg, tid, ret, lastSent>>
          ELSE /\ \E o \in WriteOutcomes(_currentConnection) :
                      IF o = "ok"
                         THEN /\ lastSent' = Command("setValue", tid["client"], arg)
                              /\ ret' = Ret("SetProperty", arg, "", 0)
                         ELSE /\ ret' = Ret("SetProperty", arg, "SendErr", 0)
                              /\ UNCHANGED lastSent
               /\ pc' = [pc EXCEPT !["client"] = "idle"]
               /\ arg' = ""
               /\ tid' = [tid EXCEPT !["client"] = 0]
               /\ UNCHANGED crashed
    /\ UNCHANGED <<session, net, readers, issued, fullSeen, reconn>>

\* RequestStatusUpdate up to getRequestId: called by the client, or by the
\* refresh goroutine when its 100 ms sleep ends.
RequestStatusUpdate(t) ==
    /\ t \in Callers
    /\ pc[t] = (IF t = "client" THEN "idle" ELSE "rf_sleep")
    /\ _requestId' = getRequestId(_requestId)
    /\ tid' = [tid EXCEPT ![t] = getRequestId(_requestId)]
    /\ issued' = Record(getRequestId(_requestId))
    /\ pc' = [pc EXCEPT ![t] = "rq_write"]
    /\ UNCHANGED <<_isConnected, _isInitialized, _status, _currentConnection, _secured,
                   net, readers, arg, ret, lastSent, fullSeen, reconn, crashed>>

\* RequestStatusUpdate: onSendResponse(w._secured, message).  A failed refresh
\* goes on to disconnectImpl and reconnect; a successful one ends the goroutine.
RequestStatusWrite(t) ==
    /\ pc[t] = "rq_write"
    /\ IF _currentConnection = NoConn
          THEN /\ crashed' = "nilWrite"
               /\ UNCHANGED <<pc, tid, ret, lastSent>>
          ELSE /\ \E o \in WriteOutcomes(_currentConnection) :
                      /\ lastSent' = (IF o = "ok"
                                         THEN Command("requestFullStatus", tid[t], "")
                                         ELSE lastSent)
                      /\ IF t = "client"
                            THEN /\ ret' = Ret("RequestStatusUpdate", "",
                                               IF o = "ok" THEN "" ELSE "SendErr", 0)
                                 /\ pc' = [pc EXCEPT ![t] = "idle"]
                            ELSE /\ pc' = [pc EXCEPT ![t] = IF o = "ok" THEN "idle" ELSE "di_check"]
                                 /\ UNCHANGED ret
               /\ tid' = [tid EXCEPT ![t] = 0]
               /\ UNCHANGED crashed
    /\ UNCHANGED <<session, net, readers, arg, issued, fullSeen, reconn>>

\* Disconnect: w._isConnected = false; w.disconnectImpl(); <-w._interrupt
ClientDisconnect ==
    /\ pc["client"] = "idle"
    /\ _isConnected' = FALSE
    /\ pc' = [pc EXCEPT !["client"] = "di_check"]
    /\ UNCHANGED <<_isInitialized, _status, _currentConnection, _requestId, _secured,
                   net, readers, arg, tid, ret, history, crashed>>

\* ---------------------------------------------------------------- disconnectImpl
\* if !w._isInitialized { return }
DisconnectCheck(t) ==
    /\ pc[t] = "di_check"
    /\ pc' = [pc EXCEPT ![t] = IF _isInitialized THEN "di_close" ELSE AfterTeardown(t)]
    /\ UNCHANGED <<session, net, readers, arg, tid, ret, history, crashed>>

\* (*w._currentConnection).Close(), then the four assignments that end
\* disconnectImpl (all made without the mutex).
DisconnectClose(t) ==
    /\ pc[t] = "di_close"
    /\ IF _currentConnection = NoConn
          THEN /\ crashed' = "nilClose"
               /\ UNCHANGED <<_isInitialized, _isConnected, _currentConnection, _status,
                              connState, pc, fullSeen>>
          ELSE /\ connState' = [connState EXCEPT ![_currentConnection] = "closed"]
               /\ _isInitialized' = FALSE
               /\ _isConnected' = FALSE
               /\ _currentConnection' = NoConn
               /\ _status' = EmptyStatus
               /\ fullSeen' = FALSE
               /\ pc' = [pc EXCEPT ![t] = AfterTeardown(t)]
               /\ UNCHANGED crashed
    /\ UNCHANGED <<_requestId, _secured, nconn, readers, arg, tid, ret, issued, lastSent,
                   reconn>>

\* ---------------------------------------------------------------- supervisor and refresh task
\* processLoop, case <-delay.C: nothing unless initialized, else the refresh
\* goroutine is started (one refresh goroutine at a time in the model).
Tick ==
    /\ pc["super"] = "loop"
    /\ IF _isInitialized /\ pc["refresh"] = "idle"
          THEN pc' = [pc EXCEPT !["refresh"] = "rf_sleep"]
          ELSE UNCHANGED pc
    /\ UNCHANGED <<session, net, readers, arg, tid, ret, history, crashed>>

\* reconnect: if w._isConnected && !w._isInitialized { return }, else sleep.
ReconnectCheck ==
    /\ pc["refresh"] = "rc_check"
    /\ pc' = [pc EXCEPT !["refresh"] =
                 IF _isConnected /\ ~_isInitialized THEN "idle" ELSE "rc_sleep"]
    /\ UNCHANGED <<session, net, readers, arg, tid, ret, history, crashed>>

\* processLoop, case <-w._interrupt: disconnectImpl, then return.
InterruptSupervisor ==
    /\ pc["super"] = "loop"
    /\ pc' = [pc EXCEPT !["super"] = "di_check"]
    /\ UNCHANGED <<session, net, readers, arg, tid, ret, history, crashed>>

\* Disconnect's <-w._interrupt receives the signal: Disconnect returns.
InterruptDisconnect ==
    /\ pc["client"] = "d_wait"
    /\ pc' = [pc EXCEPT !["client"] = "idle"]
    /\ ret' = Ret("Disconnect", "", "", 0)
    /\ UNCHANGED <<session, net, readers, arg, tid, history, crashed>>

\* ---------------------------------------------------------------- environment
\* The transport of an open connection breaks (end of stream, I/O error).
TransportLost(c) ==
    /\ connState[c] = "open"
    /\ connState' = [connState EXCEPT ![c] = "lost"]
    /\ UNCHANGED <<session, nconn, readers, pc, arg, tid, ret, history, crashed>>

\* ---------------------------------------------------------------- specification
\* Frames that reach a handler which changes the session.
SessionFrames == {f \in Frames : f.kind \in {"authSuccess", "authError", "fullStatus", "deltaStatus"}}

ReaderStep(r) ==
    \/ ReaderDeref(r)
    \/ ReaderNilDeref(r)
    \/ ReaderReadFail(r)
    \/ SetInitialized(r)
    \/ \E t \in Callers : SignalConnected(r, t) \/ SignalInitialized(r, t)

Handshake(r, f) ==
    \/ onEventAuthResult(r, f)
    \/ onEventFullStatus(r, f)
    \/ onEventDeltaStatus(r, f)

Deliver(r, f) ==
    \/ RouterDrop(r, f)
    \/ RouterPanic(r, f)
    \/ onEventHello(r, f)
    \/ onEventAuthRequired(r, f)
    \/ onEventClearInverters(r, f)
    \/ Handshake(r, f)

ConnectStep ==
    \E t \in Callers : ConnectCheck(t) \/ Dial(t) \/ DialFail(t)

CommandStep ==
    \/ \E t \in Callers : (IdsLeft /\ RequestStatusUpdate(t)) \/ RequestStatusWrite(t)
    \/ ClientSetProperty("a")
    \/ SetPropertyLocked
    \/ SetPropertyWrite

TeardownStep ==
    \E t \in Tasks : DisconnectCheck(t) \/ DisconnectClose(t)

SupervisorStep ==
    \/ Tick
    \/ ReconnectCheck
    \/ InterruptSupervisor

ClientCall ==
    \/ \E name \in Names : ClientGetProperty(name) \/ ClientSetProperty(name)
    \/ ClientDisconnect
    \/ InterruptDisconnect

\* The whole program.
Next ==
    /\ crashed = "no"
    /\ \/ \E r \in Conns : ReaderStep(r) \/ AuthSend(r)
       \/ \E r \in Conns, f \in Frames : Deliver(r, f)
       \/ \E r \in Conns, f \in ResponseFrames : onEventResponse(r, f)
       \/ ClientCall
       \/ ConnectStep
       \/ CommandStep
       \/ TeardownStep
       \/ SupervisorStep
       \/ \E c \in Conns : TransportLost(c)

Spec == Init /\ [][Next]_vars

\* The program before the first timer tick and without an interrupt signal,
\* one successful dial: the facade, the reader and any device.
NextSession ==
    /\ crashed = "no"
    /\ \/ \E r \in Conns : ReaderStep(r) \/ AuthSend(r)
       \/ \E r \in Conns, f \in Frames : Deliver(r, f)
       \/ \E r \in Conns, f \in ResponseFrames : onEventResponse(r, f)
       \/ \E name \in Names : ClientGetProperty(name) \/ ClientSetProperty(name)
       \/ ClientDisconnect
       \/ ConnectCheck("client") \/ Dial("client") \/ DialFail("client")
       \/ (IdsLeft /\ RequestStatusUpdate("client")) \/ RequestStatusWrite("client")
       \/ SetPropertyLocked
       \/ SetPropertyWrite
       \/ DisconnectCheck("client") \/ DisconnectClose("client")
       \/ \E c \in Conns : TransportLost(c)
    /\ nconn' <= 1

SpecSession == Init /\ [][NextSession]_vars

\* The program with its supervisor, a client that only connects and a device
\* that sends the frames of SessionFrames: timer ticks, refresh, reconnect.
\* The refresh goes on for as long as the session is initialized, so the
\* request counter runs past MaxRequestId here.
NextReconnect ==
    /\ crashed = "no"
    /\ \/ \E r \in Conns : ReaderStep(r)
       \/ \E r \in Conns, f \in SessionFrames : Handshake(r, f)
       \/ ConnectStep
       \/ RequestStatusUpdate("refresh") \/ RequestStatusWrite("refresh")
       \/ DisconnectCheck("refresh") \/ DisconnectClose("refresh")
       \/ Tick
       \/ ReconnectCheck
       \/ \E c \in Conns : TransportLost(c)

SpecReconnect == Init /\ [][NextReconnect]_vars

\* The same with the interrupt signal and a client that also disconnects.
NextStop ==
    /\ crashed = "no"
    /\ \/ \E r \in Conns : ReaderStep(r)
       \/ \E r \in Conns, f \in SessionFrames : Handshake(r, f)
       \/ ClientDisconnect
       \/ InterruptDisconnect
       \/ ConnectStep
       \/ (IdsLeft /\ RequestStatusUpdate("refresh")) \/ RequestStatusWrite("refresh")
       \/ TeardownStep
       \/ SupervisorStep
       \/ \E c \in Conns : TransportLost(c)

SpecStop == Init /\ [][NextStop]_vars

\* The senders of commands: a client that connects, sets "a" and requests
\* status updates, beside the supervisor's refresh and reconnect.
NextCommands ==
    /\ crashed = "no"
    /\ \/ \E r \in Conns : ReaderStep(r)
       \/ \E r \in Conns, f \in SessionFrames : Handshake(r, f)
       \/ ConnectStep
       \/ CommandStep
       \/ DisconnectCheck("refresh") \/ DisconnectClose("refresh")
       \/ Tick
       \/ ReconnectCheck
       \/ \E c \in Conns : TransportLost(c)

SpecCommands == Init /\ [][NextCommands]_vars

\* What Go's scheduler and timer guarantee: a runnable goroutine runs, the timer
\* fires, a dial ends.  Nothing is assumed of the device, the network or the client.
Live(A) == crashed = "no" /\ A

FairReconnect ==
    /\ SpecReconnect
    /\ WF_vars(Live(Tick))
    /\ WF_vars(Live(RequestStatusUpdate("refresh")))
    /\ WF_vars(Live(RequestStatusWrite("refresh")))
    /\ WF_vars(Live(DisconnectCheck("refresh") \/ DisconnectClose("refresh")))
    /\ WF_vars(Live(ReconnectCheck \/ ConnectCheck("refresh")))
    /\ WF_vars(Live(Dial("refresh") \/ DialFail("refresh")))
    /\ \A r \in Conns : WF_vars(Live(ReaderStep(r)))

\* ---------------------------------------------------------------- claims
\* A facade call of the client returns in this step.
ClientReturns(op) ==
    /\ pc'["client"] = "idle"
    /\ ret'.op = op
    /\ pc["client"] # "idle" \/ ret' # ret

\* disconnectImpl returns to task t in this step.
TeardownReturns(t) ==
    /\ pc[t] \in {"di_check", "di_close"}
    /\ pc'[t] = AfterTeardown(t)

Range(q) == {q[i] : i \in DOMAIN q}

\* C1: when Connect returns nil the session is initialized (GetProperty of an
\* observed key returns its value at once), when it returns an error both flags
\* are false.
C1_ConnectReturnsAtRest ==
    [][ClientReturns("Connect") =>
          IF ret'.err = ""
             THEN _isInitialized' /\ \A k \in DOMAIN _status' : GetProperty(k)'.err = ""
             ELSE ~_isConnected' /\ ~_isInitialized']_vars

\* C2: as long as no non-partial fullStatus of the current connection has been
\* merged, GetProperty returns an error for every name.
C2_NotReadyBeforeFullStatus ==
    ~fullSeen => \A name \in Names : GetProperty(name).err # ""

\* C3, as claimed: SetProperty of a name that is not in the store fails and sends
\* nothing; SetProperty of a name that is in the store succeeds and sends one
\* setValue for it.
C3_WriteAfterObserve ==
    [][ClientReturns("SetProperty") =>
          IF ret'.name \notin DOMAIN _status
             THEN ret'.err # "" /\ lastSent' = lastSent
             ELSE /\ ret'.err = ""
                  /\ lastSent' # lastSent
                  /\ Inner(lastSent').type = "setValue" /\ Inner(lastSent').key = ret'.name]_vars

\* C3, amended: SetProperty fails with NotReady when the session is not
\* initialized and with NotFound when it is and the name is not in the store, and
\* sends nothing in both cases; only with the name in the store does it take a
\* request id, and then it succeeds having sent one setValue for the name with
\* that id, or returns the error of the write having sent nothing.
C3_SetPropertyOutcomes ==
    [][/\ ClientReturns("SetProperty") =>
             CASE pc["client"] = "idle" ->
                    ~_isInitialized /\ ret'.err = "NotReady" /\ lastSent' = lastSent
               [] pc["client"] = "sp_lock" ->
                    /\ ret'.name \notin DOMAIN _status
                    /\ ret'.err = "NotFound"
                    /\ lastSent' = lastSent /\ issued' = issued
               [] OTHER ->
                    \/ /\ ret'.err = ""
                       /\ Inner(lastSent') = [type |-> "setValue", id |-> tid["client"],
                                       key |-> ret'.name, conn |-> _currentConnection]
                       /\ lastSent' # lastSent
                    \/ ret'.err = "SendErr" /\ lastSent' = lastSent
       /\ pc["client"] = "idle" /\ pc'["client"] = "sp_lock" => _isInitialized
       /\ pc["client"] = "sp_lock" /\ pc'["client"] = "sp_write" =>
             /\ arg \in DOMAIN _status
             /\ Len(issued') = Len(issued) + 1
             /\ tid'["client"] = issued'[Len(issued')]]_vars

\* A SetProperty of an observed name has succeeded and its setValue is the last
\* command on the wire.
C3_Witness ==
    /\ ret.op = "SetProperty" /\ ret.err = ""
    /\ ret.name \in DOMAIN _status
    /\ Inner(lastSent).type = "setValue" /\ Inner(lastSent).key = ret.name

\* C4: once the reader of the current connection has stopped on a read failure
\* in an initialized session, the session is torn down (unless the process has
\* crashed first).
ReadLost ==
    \E r \in Conns :
        /\ rpc[r] = "stopped"
        /\ rconn[r] = _currentConnection
        /\ connState[rconn[r]] = "lost"
        /\ _isInitialized

TornDown == ~_isInitialized /\ _status = EmptyStatus /\ _currentConnection = NoConn

C4_ReadFailureTearsDown == ReadLost ~> (TornDown \/ crashed # "no")

\* C5: after a failed reconnect the supervisor's task becomes active again for
\* another attempt, with no call from the client (and unless the process has
\* crashed first); a further dial is within MaxConn.
C5_ReconnectRetried ==
    (reconn = "failed" /\ nconn < MaxConn) ~>
        (pc["refresh"] # "idle" \/ pc["client"] # "idle" \/ crashed # "no")

\* C6: when the supervisor has consumed the stop signal and returned, no
\* transport is left open and both flags are false.
C6_StopTearsDown ==
    [][pc["super"] # "stopped" /\ pc'["super"] = "stopped" =>
          /\ ~_isConnected' /\ ~_isInitialized'
          /\ \A c \in Conns : connState'[c] \in {"unused", "closed"}]_vars

\* C7: when disconnectImpl returns, the status store is empty and both flags
\* are false.
C7_TeardownClearsStore ==
    [][\A t \in Tasks : TeardownReturns(t) =>
          _status' = EmptyStatus /\ ~_isConnected' /\ ~_isInitialized']_vars

\* C8: the request ids, in the order they were issued, strictly increase (so none
\* is issued twice and none is reset by a teardown), and every command written or
\* about to be written carries an issued id of its own.
C8_RequestIdsIncrease ==
    /\ \A i, j \in DOMAIN issued : i < j => issued[i] < issued[j]
    /\ lastSent.type # "none" => Inner(lastSent).id \in Range(issued)
    /\ \A t \in Callers : tid[t] # 0 => tid[t] \in Range(issued) /\ tid[t] # Inner(lastSent).id
    /\ tid["client"] # 0 => tid["client"] # tid["refresh"]

\* After a reconnect by the supervisor's task, a setValue went out on the second
\* connection with an id above the ids issued before the teardown.
C8_Witness ==
    /\ reconn = "ok"
    /\ Inner(lastSent).type = "setValue" /\ lastSent.conn = 2
    /\ Inner(lastSent).id = MaxRequestId

\* C9: no operation writes through an absent transport handle.
C9_NoWriteThroughNil == crashed # "nilWrite"

\* C10: a frame that is no JSON object, has no type or has a type without a
\* handler changes nothing of the session and the reader goes on to its next read.
Unroutable == DroppedKinds \cup {BadTypeKind}

C10_UnroutableDropped ==
    [][\A r \in Conns, f \in Frames :
          (f.kind \in Unroutable /\ (RouterDrop(r, f) \/ RouterPanic(r, f))) =>
              /\ rpc'[r] = "read"
              /\ crashed' = "no"
              /\ UNCHANGED <<session, fullSeen>>]_vars

\* C11: a handshake signal that a Connect call consumes was produced by a
\* message read on the connection of that connect attempt (the session's
\* current connection while the call waits).
C11_SignalsOfThisAttempt ==
    [][\A r \in Conns, t \in Callers :
          (SignalConnected(r, t) \/ SignalInitialized(r, t)) =>
              rconn[r] = _currentConnection]_vars

\* C12: sending the auth response, with either outcome of the write, leaves
\* the initialized flag and the status store as they were.
C12_AuthRequiredKeepsFlag ==
    [][\A r \in Conns : AuthSend(r) => UNCHANGED <<_isInitialized, _status>>]_vars

\* The facade and the reader of one connection with a device that sends
\* status frames over WideKeys: what the merges do to the store.
NextMerge ==
    /\ crashed = "no"
    /\ \/ \E r \in Conns : ReaderDeref(r) \/ ReaderReadFail(r) \/ SetInitialized(r)
       \/ \E r \in Conns : SignalConnected(r, "client") \/ SignalInitialized(r, "client")
       \/ \E r \in Conns, f \in StatusFrames \cup {Mk("authSuccess", FALSE, EmptyStatus, "absent")} :
              Handshake(r, f)
       \/ ConnectCheck("client") \/ Dial("client") \/ DialFail("client")
       \/ \E name \in Names : ClientGetProperty(name)
       \/ \E c \in Conns : TransportLost(c)
    /\ nconn' <= 1

SpecMerge == Init /\ [][NextMerge]_vars

\* C13: a partial fullStatus, a deltaStatus, and a fullStatus handled in an
\* initialized session merge their batch into the status store (the keys of the
\* batch take the batch's values, the others keep theirs), change no other
\* session field, and send no initialization signal.
MergeOnly(r, f) ==
    \/ onEventDeltaStatus(r, f)
    \/ onEventFullStatus(r, f) /\ (f.partial \/ _isInitialized)

C13_MergeOnlyFrames ==
    [][\A r \in Conns, f \in StatusFrames :
          MergeOnly(r, f) =>
              /\ DOMAIN _status' = DOMAIN _status \cup DOMAIN f.status
              /\ \A k \in DOMAIN f.status : _status'[k] = f.status[k]
              /\ \A k \in DOMAIN _status \ DOMAIN f.status : _status'[k] = _status[k]
              /\ UNCHANGED <<_isConnected, _isInitialized, _currentConnection,
                             _requestId, _secured>>
              /\ rpc'[r] = "read"]_vars

\* Merge-only frames have filled the store with both keys, one of them
\* overwritten, in a session that no fullStatus has initialized.
C13_Witness ==
    /\ ~_isInitialized /\ ~fullSeen
    /\ _status = [k \in WideKeys |-> IF k = "a" THEN 2 ELSE 1]
    /\ \E r \in Conns : rpc[r] = "read" /\ rconn[r] = _currentConnection

\* C14: when Connect returns the error of an authError, both flags are false
\* and the connection of the failed attempt is closed.
C14_AuthErrorDisconnects ==
    [][\A r \in Conns :
          (rpc[r] = "sig_false" /\ SignalConnected(r, "client")) =>
              /\ ret'.err # ""
              /\ ~_isConnected' /\ ~_isInitialized'
              /\ \A c \in Conns : connState'[c] # "open"]_vars

\* C15: handling a response never ends the process; a response with success
\* true takes the reader to the handoff of its payload (the send on
\* w._sendResponse), any other response takes it to its next read.
C15_ResponsePath ==
    [][\A r \in Conns, f \in ResponseFrames :
          onEventResponse(r, f) =>
              /\ crashed' = "no"
              /\ rpc'[r] = (IF f.success = "true" THEN "sig_resp" ELSE "read")]_vars

\* The store beside its readers: one connection, a device that sends status
\* frames over WideKeys, updateStatus taken key by key, a client that reads
\* with GetProperty and Properties, and the stop signal's teardown.
NextStore ==
    /\ crashed = "no"
    /\ \/ \E r \in Conns : ReaderDeref(r) \/ ReaderNilDeref(r) \/ ReaderReadFail(r)
       \/ \E r \in Conns : SetInitialized(r)
       \/ \E r \in Conns : SignalConnected(r, "client") \/ SignalInitialized(r, "client")
       \/ \E r \in Conns : onEventAuthResult(r, Mk("authSuccess", FALSE, EmptyStatus, "absent"))
       \/ \E r \in Conns, f \in StatusFrames : MergeBegin(r, f)
       \/ \E r \in Conns, k \in WideKeys : MergeKey(r, k)
       \/ \E r \in Conns : MergeEnd(r)
       \/ ConnectCheck("client") \/ Dial("client") \/ DialFail("client")
       \/ \E name \in Names : ClientGetProperty(name)
       \/ ClientProperties
       \/ InterruptSupervisor
       \/ DisconnectCheck("super") \/ DisconnectClose("super")
    /\ nconn' <= 1

SpecStore == Init /\ [][NextStore]_vars

\* C16: when updateStatus releases the mutex after a batch, which is when a
\* GetProperty or Properties call can next read the store, the store shows
\* either every key of the batch with the batch's value or none of them.
C16_BatchesAppliedWhole ==
    [][\A r \in Conns :
          MergeEnd(r) =>
              LET batch == merging.frame.status
                  applied == {k \in DOMAIN batch : k \in DOMAIN _status' /\ _status'[k] = batch[k]}
              IN  applied \in {{}, DOMAIN batch}]_vars

\* C17: every step that changes the session flags, the secured flag or the
\* Status Store is a step of the task that holds the mutex; the one writer
\* under the mutex is the loop of updateStatus.
C17_MutationsUnderMutex ==
    [][<<_status, _isConnected, _isInitialized, _secured>>' # <<_status, _isConnected, _isInitialized, _secured>>
          => \E r \in Conns, k \in WideKeys : MergeKey(r, k)]_vars

\* C18: a teardown that runs beside or after another one is a no-op: no task
\* reaches the Close of line 344 with the handle already cleared, so the
\* transport's Close is called once at most.
C18_CloseOnce == crashed # "nilClose"

\* The device of the first connection announces secured = true in its hello;
\* the device met after a reconnect sends a hello without the field.
Announces(c) == IF c = 1 THEN "true" ELSE "absent"

\* A session that is set up, sends status requests, is disconnected by the
\* client and set up again.
NextSecure ==
    /\ crashed = "no"
    /\ \/ \E r \in Conns : ReaderStep(r)
       \/ \E r \in Conns : onEventHello(r, Mk("hello", FALSE, EmptyStatus, Announces(rconn[r])))
       \/ \E r \in Conns, f \in SessionFrames : f.kind \in {"authSuccess", "fullStatus"} /\ Handshake(r, f)
       \/ ConnectCheck("client") \/ Dial("client") \/ DialFail("client")
       \/ (IdsLeft /\ RequestStatusUpdate("client")) \/ RequestStatusWrite("client")
       \/ ClientDisconnect
       \/ DisconnectCheck("client") \/ DisconnectClose("client")
       \/ InterruptDisconnect

SpecSecure == Init /\ [][NextSecure]_vars

\* C19: the hello of the current connection decides the envelope: after a
\* hello the secured flag is true exactly when the hello says secured = true,
\* and a status request that is written goes out as a securedMsg, with the
\* inner id followed by "sm" as requestId and the inner message as data, only
\* to a connection whose hello announced secured = true, and as the inner
\* message to a connection whose hello has no secured field.
C19_EnvelopeOfThisConnection ==
    [][/\ \A r \in Conns :
             (rconn[r] = _currentConnection
                /\ onEventHello(r, Mk("hello", FALSE, EmptyStatus, Announces(rconn[r]))))
                 => _secured' = (Announces(rconn[r]) = "true")
       /\ (RequestStatusWrite("client") /\ lastSent' # lastSent) =>
             IF Announces(_currentConnection) = "true"
                THEN lastSent'.type = "securedMsg" =>
                        /\ lastSent'.requestId = <<tid["client"], "sm">>
                        /\ lastSent'.data = [type |-> "requestFullStatus", id |-> tid["client"], key |-> ""]
                ELSE lastSent' = [type |-> "requestFullStatus", id |-> tid["client"], key |-> "",
                                  conn |-> _currentConnection]]_vars

\* C20: at most one transport connection of the session is open at a time.
C20_OneConnection == Cardinality({c \in Conns : connState[c] = "open"}) <= 1

====
